---------------------------- MODULE Spec2Model ----------------------------
(***************************************************************************)
(* A model of the blackjack Monte Carlo simulator: the card / hand / shoe  *)
(* classes of models.py, the Hi-Lo count and the basic strategy of         *)
(* rules.py, and BlackjackSimulator (draw_card, get_bet_size, play_round,  *)
(* simulate) of simulator.py.                                              *)
(*                                                                         *)
(* Numbers.  Python floats are modelled as exact decimals in fixed point:  *)
(*   - true_count is held in tenths (round(x, 1) keeps one decimal);       *)
(*   - money, and every value play_hand returns (a hand total, a signed    *)
(*     wager, the surrender code -2), is held in hundredths, so that the   *)
(*     code's comparisons between them are comparisons of like numbers.    *)
(* The shuffle is modelled lazily: a shuffled shoe popped from its end     *)
(* yields, at each draw, any card still in it.                             *)
(***************************************************************************)
EXTENDS Integers, Sequences, FiniteSets, TLC

VARIABLES
    rules,          \* BlackjackRules of the simulator (fixed during a run)
    explore,        \* what is explored: the ranks the shuffles bring to the top of
                    \* the shoe, and the most rounds asked of simulate
    shoe,           \* self.shoe.cards as a bag: rank -> copies left
    running_count,  \* self.running_count
    true_count,     \* self.true_count, in tenths
    cards_used,     \* self.cards_used
    draw,           \* the last draw_card call: card, whether it rebuilt, counts before
    pc,             \* position of the running call
    pr,             \* locals of play_round
    ph,             \* frames of play_hand (main hand and the two split hands)
    sim,            \* locals of simulate
    call,           \* a function called on its own: its arguments and results
    random,         \* the state of the generator of module random, one per process
    instances       \* the simulators run side by side in one process, each with
                    \* its shoe in order (none where one simulator is modelled)

vars == <<rules, explore, shoe, running_count, true_count, cards_used,
          draw, pc, pr, ph, sim, call, random, instances>>

Max(a, b) == IF a >= b THEN a ELSE b
Min(a, b) == IF a <= b THEN a ELSE b

(***************************************************************************)
(* models.py: Card                                                         *)
(***************************************************************************)
RANKS == <<"2", "3", "4", "5", "6", "7", "8", "9", "10", "J", "Q", "K", "A">>

RankSet == {RANKS[i] : i \in 1..Len(RANKS)}

\* len(Card.SUITS)
NumSuits == 4

\* Card.value
CardValue(rank) ==
    IF rank = "A" THEN 11
    ELSE IF rank \in {"K", "Q", "J"} THEN 10
    ELSE CASE rank = "2" -> 2 [] rank = "3" -> 3 [] rank = "4" -> 4
           [] rank = "5" -> 5 [] rank = "6" -> 6 [] rank = "7" -> 7
           [] rank = "8" -> 8 [] rank = "9" -> 9 [] rank = "10" -> 10

(***************************************************************************)
(* models.py: Hand (a hand is the sequence of its cards' ranks)            *)
(***************************************************************************)
RECURSIVE NonAceSum(_)
NonAceSum(cards) ==
    IF cards = <<>> THEN 0
    ELSE (IF Head(cards) = "A" THEN 0 ELSE CardValue(Head(cards)))
         + NonAceSum(Tail(cards))

RECURSIVE NumAces(_)
NumAces(cards) ==
    IF cards = <<>> THEN 0
    ELSE (IF Head(cards) = "A" THEN 1 ELSE 0) + NumAces(Tail(cards))

\* the second loop of Hand.value: each ace is 11 if that fits, else 1
RECURSIVE AddAces(_, _)
AddAces(value, aces) ==
    IF aces = 0 THEN value
    ELSE AddAces(IF value + 11 <= 21 THEN value + 11 ELSE value + 1, aces - 1)

\* Hand.value
HandValue(cards) == AddAces(NonAceSum(cards), NumAces(cards))

\* Hand.is_soft
IsSoft(cards) == NumAces(cards) > 0 /\ NonAceSum(cards) + 11 <= 21

\* Hand.is_blackjack
IsBlackjack(cards) == Len(cards) = 2 /\ HandValue(cards) = 21

\* Hand.is_bust
IsBust(cards) == HandValue(cards) > 21

(***************************************************************************)
(* rules.py: hilo_count                                                    *)
(***************************************************************************)
hilo_count(rank) ==
    IF rank \in {"2", "3", "4", "5", "6"} THEN 1
    ELSE IF rank \in {"10", "J", "Q", "K", "A"} THEN -1
    ELSE 0

(***************************************************************************)
(* models.py: Deck                                                         *)
(***************************************************************************)
\* Deck.build_deck: num_decks copies of every rank in every suit
BuildDeck(num_decks) == [r \in RankSet |-> NumSuits * num_decks]

\* the cards of the first n ranks of Card.RANKS
RECURSIVE SumOver(_, _)
SumOver(f, n) ==
    IF n = 0 THEN 0 ELSE f[RANKS[n]] + SumOver(f, n - 1)

\* Deck.cards_remaining
CardsRemaining(cards) == SumOver(cards, Len(RANKS))

\* Deck.deal, the popped card being of rank c
Deal(cards, c) == [cards EXCEPT ![c] = @ - 1]

(***************************************************************************)
(* simulator.py: BlackjackSimulator.draw_card                              *)
(***************************************************************************)
\* round(x / y, 1) in tenths, for y > 0: to the nearest tenth, ties to even.
\* (Python rounds the float quotient; the two agree for every running count
\* and every number of cards below 80, which covers shoes of one deck.)
RoundTenths(x, y) ==
    LET num == 10 * x
        q == num \div y
        r == num % y
    IN IF 2 * r > y \/ (2 * r = y /\ q % 2 = 1) THEN q + 1 ELSE q

\* lines 34-38: running count per deck remaining, left alone when no card remains
TrueCountAfter(rc, remaining, old) ==
    IF remaining > 0 THEN RoundTenths(rc * 52, remaining) ELSE old

\* line 22
NeedsReshuffle == CardsRemaining(shoe) <= rules.min_cards_before_shuffle

\* draw_card counting the card it returns from a rebuilt shoe
DrawCardCountingFirst(c) ==
    /\ draw' = [card |-> c, rebuilt |-> NeedsReshuffle,
                rc |-> running_count, tc |-> true_count,
                remaining |-> CardsRemaining(shoe)]
    /\ shoe' = Deal(IF NeedsReshuffle THEN BuildDeck(rules.deck_count) ELSE shoe, c)
    /\ (NeedsReshuffle \/ shoe[c] > 0)
    /\ running_count' = (IF NeedsReshuffle THEN 0 ELSE running_count) + hilo_count(c)
    /\ cards_used' = (IF NeedsReshuffle THEN 0 ELSE cards_used) + 1
    /\ true_count' = TrueCountAfter(running_count', CardsRemaining(shoe'), true_count)

\* draw_card leaving the running count as it was when it does not rebuild
DrawCardWithoutCounting(c) ==
    /\ draw' = [card |-> c, rebuilt |-> NeedsReshuffle,
                rc |-> running_count, tc |-> true_count,
                remaining |-> CardsRemaining(shoe)]
    /\ IF NeedsReshuffle
       THEN /\ shoe' = Deal(BuildDeck(rules.deck_count), c)
            /\ running_count' = 0
            /\ cards_used' = 0
            /\ true_count' = 0
       ELSE /\ shoe[c] > 0
            /\ shoe' = Deal(shoe, c)
            /\ running_count' = running_count
            /\ cards_used' = cards_used + 1
            /\ true_count' = TrueCountAfter(running_count,
                                            CardsRemaining(shoe) - 1, true_count)

\* draw_card returning a card of rank c
DrawCard(c) ==
    /\ draw' = [card |-> c, rebuilt |-> NeedsReshuffle,
                rc |-> running_count, tc |-> true_count,
                remaining |-> CardsRemaining(shoe)]
    /\ IF NeedsReshuffle
       THEN /\ shoe' = Deal(BuildDeck(rules.deck_count), c)
            /\ running_count' = 0
            /\ cards_used' = 0
            /\ true_count' = 0
       ELSE /\ shoe[c] > 0
            /\ shoe' = Deal(shoe, c)
            /\ running_count' = running_count + hilo_count(c)
            /\ cards_used' = cards_used + 1
            /\ true_count' = TrueCountAfter(running_count + hilo_count(c),
                                            CardsRemaining(shoe) - 1, true_count)

(***************************************************************************)
(* simulator.py: BlackjackSimulator.get_bet_size                           *)
(***************************************************************************)
\* BetFor without the floor of one unit: bet = min_bet * (true_count + 1)
BetForNoFloor(min_bet, tc, lo, hi) ==
    LET bet == min_bet * 10 * (tc + 10)
    IN Max(lo * 100, Min(bet, hi * 100))

\* the bet, in hundredths, for a unit of min_bet (whole units), a true count
\* tc (tenths) and the table limits lo, hi (whole units)
BetFor(min_bet, tc, lo, hi) ==
    LET bet == min_bet * 10 * Max(10, tc + 10)
    IN Max(lo * 100, Min(bet, hi * 100))

get_bet_size(min_bet) == BetFor(min_bet, true_count, rules.min_bet, rules.max_bet)

(***************************************************************************)
(* rules.py: basic strategy                                                *)
(***************************************************************************)
should_double_down(player_value, dealer_value, is_soft, num_cards, can_double) ==
    IF ~can_double \/ num_cards # 2 THEN FALSE
    ELSE IF ~is_soft
         THEN IF player_value = 11 THEN TRUE
              ELSE IF player_value = 10 THEN dealer_value <= 9
              ELSE IF player_value = 9 THEN 3 <= dealer_value /\ dealer_value <= 6
              ELSE FALSE
         ELSE FALSE

\* SurrenderCheck without its rule for hard 15
SurrenderCheckSixteenOnly(cards, player_value, dealer_value, is_soft, can_split, can_surrender) ==
    IF can_surrender /\ Len(cards) = 2 /\ ~is_soft /\ player_value = 16
       /\ dealer_value >= 9 /\ ~(can_split /\ cards[1] = "8")
    THEN "R" ELSE ""

\* lines 78-86: "R", or "" to go on
SurrenderCheck(cards, player_value, dealer_value, is_soft, can_split, can_surrender) ==
    IF can_surrender /\ Len(cards) = 2 /\ ~is_soft
    THEN IF player_value = 16
         THEN IF dealer_value >= 9 /\ ~(can_split /\ cards[1] = "8") THEN "R" ELSE ""
         ELSE IF player_value = 15 /\ dealer_value = 10 THEN "R" ELSE ""
    ELSE ""

\* PairCheck splitting eights only where sevens are split, against 2 to 7
PairCheckEightsLikeSevens(cards, dealer_value, can_split) ==
    IF can_split /\ Len(cards) = 2 /\ cards[1] = cards[2]
    THEN LET rank == cards[1]
         IN IF rank = "A" THEN "P"
            ELSE IF rank = "5" \/ rank \in {"10", "J", "Q", "K"} THEN ""
            ELSE IF rank \in {"2", "3"} /\ dealer_value <= 7 THEN "P"
            ELSE IF rank = "4" /\ 5 <= dealer_value /\ dealer_value <= 6 THEN "P"
            ELSE IF rank = "6" /\ dealer_value <= 6 THEN "P"
            ELSE IF rank \in {"7", "8"} /\ dealer_value <= 7 THEN "P"
            ELSE IF rank = "9" /\ (dealer_value <= 6 \/ dealer_value = 8 \/ dealer_value = 9)
                 THEN "P"
            ELSE ""
    ELSE ""

\* lines 88-112: "P", or "" to go on
PairCheck(cards, dealer_value, can_split) ==
    IF can_split /\ Len(cards) = 2 /\ cards[1] = cards[2]
    THEN LET rank == cards[1]
         IN IF rank = "A" \/ rank = "8" THEN "P"
            ELSE IF rank = "5" \/ rank \in {"10", "J", "Q", "K"} THEN ""
            ELSE IF rank \in {"2", "3"} /\ dealer_value <= 7 THEN "P"
            ELSE IF rank = "4" /\ 5 <= dealer_value /\ dealer_value <= 6 THEN "P"
            ELSE IF rank = "6" /\ dealer_value <= 6 THEN "P"
            ELSE IF rank = "7" /\ dealer_value <= 7 THEN "P"
            ELSE IF rank = "9" /\ (dealer_value <= 6 \/ dealer_value = 8 \/ dealer_value = 9)
                 THEN "P"
            ELSE ""
    ELSE ""

DoubleOrHit(can_double) == IF can_double THEN "D" ELSE "H"

\* lines 118-150
SoftTotals(player_value, dealer_value, can_double) ==
    IF player_value >= 20 THEN "S"
    ELSE IF player_value = 19 THEN "S"
    ELSE IF player_value = 18
         THEN IF dealer_value >= 9 THEN "H"
              ELSE IF 3 <= dealer_value /\ dealer_value <= 6 THEN DoubleOrHit(can_double)
              ELSE "S"
    ELSE IF player_value = 17
         THEN IF 3 <= dealer_value /\ dealer_value <= 6 THEN DoubleOrHit(can_double) ELSE "H"
    ELSE IF player_value = 16 \/ player_value = 15
         THEN IF 4 <= dealer_value /\ dealer_value <= 6 THEN DoubleOrHit(can_double) ELSE "H"
    ELSE IF player_value = 14 \/ player_value = 13
         THEN IF 5 <= dealer_value /\ dealer_value <= 6 THEN DoubleOrHit(can_double) ELSE "H"
    ELSE "H"

\* lines 152-169
HardTotals(player_value, dealer_value, can_double) ==
    IF player_value >= 17 THEN "S"
    ELSE IF player_value >= 13 THEN (IF dealer_value <= 6 THEN "S" ELSE "H")
    ELSE IF player_value = 12
         THEN (IF 4 <= dealer_value /\ dealer_value <= 6 THEN "S" ELSE "H")
    ELSE IF player_value = 11 THEN DoubleOrHit(can_double)
    ELSE IF player_value = 10
         THEN (IF can_double /\ dealer_value <= 9 THEN "D" ELSE "H")
    ELSE IF player_value = 9
         THEN (IF can_double /\ 3 <= dealer_value /\ dealer_value <= 6 THEN "D" ELSE "H")
    ELSE "H"

get_basic_strategy_move(cards, dealer_upcard, can_split, can_double, can_surrender) ==
    LET player_value == HandValue(cards)
        dealer_value == CardValue(dealer_upcard)
        is_soft == IsSoft(cards)
        surrender == SurrenderCheck(cards, player_value, dealer_value, is_soft,
                                    can_split, can_surrender)
        pair == PairCheck(cards, dealer_value, can_split)
    IN IF surrender # "" THEN surrender
       ELSE IF pair # "" THEN pair
       ELSE IF ~is_soft /\ can_double
               /\ should_double_down(player_value, dealer_value, is_soft, Len(cards), TRUE)
            THEN "D"
       ELSE IF is_soft THEN SoftTotals(player_value, dealer_value, can_double)
       ELSE HardTotals(player_value, dealer_value, can_double)


(***************************************************************************)
(* simulator.py: BlackjackSimulator.play_round                             *)
(***************************************************************************)
\* the locals of play_round before the call
NoRound ==
    [min_bet |-> 0, bet |-> 0, player_hand |-> <<>>, dealer_hand |-> <<>>,
     cards_used |-> 0, count_delta |-> 0, side_bet_profit |-> 0,
     make_side_bet |-> FALSE, player_blackjack |-> FALSE,
     dealer_blackjack |-> FALSE, can_split |-> FALSE, dealer_total |-> 0,
     player_result |-> 0, result |-> 0,
     ret |-> [profit |-> 0, cards_used |-> 0, count_delta |-> 0,
              is_blackjack |-> FALSE]]

\* the frames of play_hand before the call.  frame names the hand being
\* resolved; current_bet is the main frame's, child_bet the running child's;
\* doubled and surrendered record the frames that took that action
NoHand ==
    [frame |-> "none", current_bet |-> 0, child_bet |-> 0, split_aces |-> FALSE,
     hand1 |-> <<>>, hand2 |-> <<>>, result1 |-> 0, result2 |-> 0,
     doubled |-> {}, surrendered |-> {}]

\* lines 60-67: play_round(min_bet) is entered
EnterRound(min_bet) ==
    /\ pr' = [NoRound EXCEPT !.min_bet = min_bet, !.bet = get_bet_size(min_bet)]
    /\ ph' = NoHand
    /\ pc' = "deal"

\* lines 69-79: one draw of the initial deal, player and dealer in turn
DealInitial(c) ==
    /\ pc = "deal"
    /\ DrawCard(c)
    /\ pr' = [pr EXCEPT
                !.player_hand = IF pr.cards_used % 2 = 0 THEN Append(@, c) ELSE @,
                !.dealer_hand = IF pr.cards_used % 2 = 1 THEN Append(@, c) ELSE @,
                !.count_delta = @ + hilo_count(c),
                !.cards_used = @ + 1]
    /\ pc' = IF pr.cards_used + 1 = 4 THEN "naturals" ELSE "deal"
    /\ UNCHANGED <<random, instances, rules, explore, call, ph, sim>>

\* line 84
MakeSideBet == true_count >= 30 /\ rules.enable_perfect_20

\* SideBetProfit giving the stake back to a side bet that wins
SideBetProfitStakeReturned(player_hand, make_side_bet) ==
    IF make_side_bet
    THEN IF HandValue(player_hand) = 20 /\ Len(player_hand) = 2
         THEN rules.perfect_20_side_bet * rules.perfect_20_payout * 100
         ELSE -rules.perfect_20_side_bet * 100
    ELSE 0

\* lines 82-90
SideBetProfit(player_hand, make_side_bet) ==
    IF make_side_bet
    THEN (IF HandValue(player_hand) = 20 /\ Len(player_hand) = 2
          THEN rules.perfect_20_side_bet * rules.perfect_20_payout * 100
          ELSE 0) - rules.perfect_20_side_bet * 100
    ELSE 0

\* NaturalsProfit paying a player blackjack even money
NaturalsProfitEvenMoney(player_blackjack, dealer_blackjack, bet) ==
    IF player_blackjack /\ dealer_blackjack THEN 0
    ELSE IF player_blackjack THEN bet
    ELSE -bet

\* lines 96-102: the profit returned when a natural ends the round
\* (blackjack_payout is held in tenths)
NaturalsProfit(player_blackjack, dealer_blackjack, bet) ==
    IF player_blackjack /\ dealer_blackjack THEN 0
    ELSE IF player_blackjack THEN (bet * rules.blackjack_payout) \div 10
    ELSE -bet

\* lines 81-106 and the call of line 214
Naturals ==
    /\ pc = "naturals"
    /\ LET pbj == IsBlackjack(pr.player_hand)
           dbj == IsBlackjack(pr.dealer_hand)
           p == [pr EXCEPT
                   !.make_side_bet = MakeSideBet,
                   !.side_bet_profit = SideBetProfit(pr.player_hand, MakeSideBet),
                   !.player_blackjack = pbj,
                   !.dealer_blackjack = dbj]
       IN IF pbj \/ dbj
          THEN /\ pr' = [p EXCEPT !.ret =
                           [profit |-> NaturalsProfit(pbj, dbj, pr.bet),
                            cards_used |-> pr.cards_used,
                            count_delta |-> pr.count_delta,
                            is_blackjack |-> pbj /\ ~dbj]]
               /\ ph' = ph
               /\ pc' = "returned"
          ELSE /\ pr' = [p EXCEPT
                           !.can_split = Len(pr.player_hand) = 2
                                         /\ pr.player_hand[1] = pr.player_hand[2],
                           !.dealer_total = HandValue(pr.dealer_hand)]
               /\ ph' = [NoHand EXCEPT !.frame = "main", !.current_bet = pr.bet]
               /\ pc' = "play_hand"
    /\ UNCHANGED <<random, instances, rules, explore, call, shoe, running_count, true_count,
                   cards_used, draw, sim>>


(***************************************************************************)
(* play_round.play_hand (lines 109-211), one frame at a time               *)
(***************************************************************************)
\* the hand, the wager and the flags of the frame being resolved
CurHand ==
    IF ph.frame = "main" THEN pr.player_hand
    ELSE IF ph.frame = "hand1" THEN ph.hand1 ELSE ph.hand2

CurBet == IF ph.frame = "main" THEN ph.current_bet ELSE ph.child_bet

\* CurCanSplit with the hands of a split allowed to split again
CurCanSplitAgain == Len(CurHand) = 2 /\ CurHand[1] = CurHand[2]

CurCanSplit == ph.frame = "main" /\ pr.can_split

CurSplitAces == ph.frame # "main" /\ ph.split_aces

\* line 128
CanDouble(hand, split_aces) ==
    Len(hand) = 2 /\ (~split_aces \/ rules.double_after_split)

\* lines 128-133
ChosenAction ==
    LET can_double == CanDouble(CurHand, CurSplitAces)
        action == get_basic_strategy_move(CurHand, pr.dealer_hand[1], CurCanSplit,
                                          can_double, rules.late_surrender)
    IN IF action = "D" /\ ~can_double THEN "H" ELSE action

\* the frame's hand and wager replaced
WithHand(h, hand, bet) ==
    IF h.frame = "main" THEN [h EXCEPT !.current_bet = bet]
    ELSE IF h.frame = "hand1" THEN [h EXCEPT !.hand1 = hand, !.child_bet = bet]
    ELSE [h EXCEPT !.hand2 = hand, !.child_bet = bet]

WithPlayerHand(p, h, hand) ==
    IF h.frame = "main" THEN [p EXCEPT !.player_hand = hand] ELSE p

\* lines 204-211: the value play_hand returns after its loop
TerminalResult(hand, current_bet) ==
    IF IsBust(hand) THEN -current_bet
    ELSE IF IsBlackjack(hand) /\ Len(hand) = 2
         THEN (current_bet * rules.blackjack_payout) \div 10
    ELSE HandValue(hand) * 100

\* lines 122-124: what a hand of split aces returns after its one card
SplitAcesResult(hand, current_bet) ==
    IF HandValue(hand) > 21 THEN -current_bet ELSE HandValue(hand) * 100

\* the surrender code of line 200
SurrenderCode == -2 * 100

\* play_hand returns v to its caller: the main frame to line 214, the first
\* split hand to line 164 (the second hand is played next), the second to
\* line 165 (lines 168-169 follow)
Return(v, p, h) ==
    IF h.frame = "main"
    THEN /\ pr' = [p EXCEPT !.player_result = v]
         /\ ph' = h
         /\ pc' = "settle"
    ELSE IF h.frame = "hand1"
    THEN /\ pr' = p
         /\ ph' = [h EXCEPT !.result1 = v, !.frame = "hand2",
                            !.child_bet = h.current_bet]
         /\ pc' = "split_draw"
    ELSE /\ pr' = [p EXCEPT !.dealer_total = HandValue(p.dealer_hand)]
         /\ ph' = [h EXCEPT !.result2 = v, !.frame = "split"]
         /\ pc' = "split_settle"

\* Counted leaving the weight of the card out of count_delta
CountedWithoutWeight(p, c) == [p EXCEPT !.cards_used = @ + 1]

\* the bookkeeping of a draw inside play_round (cards_used, count_delta)
Counted(p, c) ==
    [p EXCEPT !.cards_used = @ + 1, !.count_delta = @ + hilo_count(c)]

\* lines 135-136 and 201-202: stand, or no branch applies
Stand ==
    /\ pc = "play_hand"
    /\ ChosenAction # "H"
    /\ ~(ChosenAction = "D" /\ Len(CurHand) = 2)
    /\ ~(ChosenAction = "P" /\ CurCanSplit)
    /\ ~(ChosenAction = "R" /\ rules.late_surrender)
    /\ Return(TerminalResult(CurHand, CurBet), pr, ph)
    /\ UNCHANGED <<random, instances, rules, explore, call, shoe, running_count, true_count,
                   cards_used, draw, sim>>

\* Hit leaving the card it draws out of the hand
HitLosingTheCard(c) ==
    /\ pc = "play_hand"
    /\ ChosenAction = "H"
    /\ DrawCard(c)
    /\ UNCHANGED <<pc, pr, ph>>
    /\ UNCHANGED <<random, instances, rules, explore, call, sim>>

\* lines 137-143
Hit(c) ==
    /\ pc = "play_hand"
    /\ ChosenAction = "H"
    /\ DrawCard(c)
    /\ LET hand == Append(CurHand, c)
           p == Counted(WithPlayerHand(pr, ph, hand), c)
           h == WithHand(ph, hand, CurBet)
       IN IF IsBust(hand)
          THEN Return(-CurBet, p, h)
          ELSE pr' = p /\ ph' = h /\ pc' = "play_hand"
    /\ UNCHANGED <<random, instances, rules, explore, call, sim>>

\* line 149
DoubledBet(current_bet) == current_bet * 2

\* lines 144-152 and 204-211
Double(c) ==
    /\ pc = "play_hand"
    /\ ChosenAction = "D"
    /\ Len(CurHand) = 2
    /\ DrawCard(c)
    /\ LET hand == Append(CurHand, c)
           bet == DoubledBet(CurBet)
           p == Counted(WithPlayerHand(pr, ph, hand), c)
           h == [WithHand(ph, hand, bet) EXCEPT !.doubled = @ \cup {ph.frame}]
       IN IF IsBust(hand)
          THEN Return(-bet, p, h)
          ELSE Return(TerminalResult(hand, bet), p, h)
    /\ UNCHANGED <<random, instances, rules, explore, call, sim>>

\* lines 153-164: the pair is split and the first hand is entered
Split ==
    /\ pc = "play_hand"
    /\ ChosenAction = "P"
    /\ CurCanSplit
    /\ ph' = [ph EXCEPT
                !.hand1 = <<CurHand[1]>>,
                !.hand2 = <<CurHand[2]>>,
                !.split_aces = CurHand[1] = "A" /\ ~rules.hit_after_split_aces,
                !.frame = "hand1",
                !.child_bet = ph.current_bet]
    /\ pc' = "split_draw"
    /\ UNCHANGED <<random, instances, rules, explore, call, shoe, running_count, true_count,
                   cards_used, draw, pr, sim>>

\* lines 199-200
Surrender ==
    /\ pc = "play_hand"
    /\ ChosenAction = "R"
    /\ rules.late_surrender
    /\ Return(SurrenderCode, pr, [ph EXCEPT !.surrendered = @ \cup {ph.frame}])
    /\ UNCHANGED <<random, instances, rules, explore, call, shoe, running_count, true_count,
                   cards_used, draw, sim>>

\* SplitDraw letting a hand of split aces play on after its card
SplitDrawPlayingOn(c) ==
    /\ pc = "split_draw"
    /\ DrawCard(c)
    /\ pr' = Counted(pr, c)
    /\ ph' = WithHand(ph, Append(CurHand, c), CurBet)
    /\ pc' = "play_hand"
    /\ UNCHANGED <<random, instances, rules, explore, call, sim>>

\* lines 113-124: a split hand draws its second card
SplitDraw(c) ==
    /\ pc = "split_draw"
    /\ DrawCard(c)
    /\ LET hand == Append(CurHand, c)
           p == Counted(pr, c)
           h == WithHand(ph, hand, CurBet)
       IN IF ph.split_aces
          THEN Return(SplitAcesResult(hand, CurBet), p, h)
          ELSE pr' = p /\ ph' = h /\ pc' = "play_hand"
    /\ UNCHANGED <<random, instances, rules, explore, call, sim>>


(***************************************************************************)
(* play_hand, lines 167-198: the split hands against the dealer            *)
(***************************************************************************)
\* line 174 (and line 217): the value is taken for a hand total
NotBust(result) == result >= 0

\* line 177: the dealer's loop inside the split branch
SplitDealerDraws(dealer_total, dealer_hand) ==
    dealer_total < 17
    \/ (dealer_total = 17 /\ rules.dealer_hit_soft_17 /\ IsSoft(dealer_hand))

\* lines 174-196: what one split hand adds to total_result
SplitHandResult(result, dealer_total, current_bet) ==
    IF NotBust(result)
    THEN IF dealer_total > 21 THEN current_bet
         ELSE IF result > dealer_total * 100 THEN current_bet
         ELSE IF result < dealer_total * 100 THEN -current_bet
         ELSE 0
    ELSE IF result = SurrenderCode THEN -(current_bet \div 2)
    ELSE -current_bet

\* lines 172-198
TotalResult(result1, result2, dealer_total, current_bet) ==
    SplitHandResult(result1, dealer_total, current_bet)
    + SplitHandResult(result2, dealer_total, current_bet)

\* lines 176-183: the dealer draws for the first split hand that needs it
SplitDealerDraw(c) ==
    /\ pc = "split_settle"
    /\ NotBust(ph.result1) \/ NotBust(ph.result2)
    /\ SplitDealerDraws(pr.dealer_total, pr.dealer_hand)
    /\ DrawCard(c)
    /\ pr' = [Counted(pr, c) EXCEPT
                !.dealer_hand = Append(@, c),
                !.dealer_total = HandValue(Append(pr.dealer_hand, c))]
    /\ UNCHANGED <<random, instances, rules, explore, call, pc, ph, sim>>

\* lines 171-198: the split hands are settled and play_hand returns the sum
SplitSettle ==
    /\ pc = "split_settle"
    /\ ~((NotBust(ph.result1) \/ NotBust(ph.result2))
         /\ SplitDealerDraws(pr.dealer_total, pr.dealer_hand))
    /\ Return(TotalResult(ph.result1, ph.result2, pr.dealer_total, ph.current_bet),
              pr, [ph EXCEPT !.frame = "main"])
    /\ UNCHANGED <<random, instances, rules, explore, call, shoe, running_count, true_count,
                   cards_used, draw, sim>>

(***************************************************************************)
(* play_round, lines 216-249: dealer play and settlement                   *)
(***************************************************************************)
\* lines 219-226: the dealer's loop goes on to its draw
DealerDraws(dealer_hand) ==
    LET dealer_total == HandValue(dealer_hand)
    IN /\ ~(dealer_total > 21)
       /\ ~(dealer_total >= 17
            /\ (~IsSoft(dealer_hand) \/ ~rules.dealer_hit_soft_17))

\* lines 227-231
DealerDraw(c) ==
    /\ pc = "settle"
    /\ NotBust(pr.player_result)
    /\ DealerDraws(pr.dealer_hand)
    /\ DrawCard(c)
    /\ pr' = [Counted(pr, c) EXCEPT
                !.dealer_hand = Append(@, c),
                !.dealer_total = HandValue(pr.dealer_hand)]
    /\ UNCHANGED <<random, instances, rules, explore, call, pc, ph, sim>>

\* CompareHands settling a hand on twice the round's bet
CompareHandsOnTwiceTheBet(player_result, dealer_total, bet) ==
    IF dealer_total > 21 THEN 2 * bet
    ELSE IF player_result > dealer_total * 100 THEN 2 * bet
    ELSE IF player_result < dealer_total * 100 THEN -2 * bet
    ELSE 0

\* lines 233-242
CompareHands(player_result, dealer_total, bet) ==
    IF dealer_total > 21 THEN bet
    ELSE IF player_result > dealer_total * 100 THEN bet
    ELSE IF player_result < dealer_total * 100 THEN -bet
    ELSE 0

\* lines 217-246
RoundResult(player_result, dealer_total, bet) ==
    IF NotBust(player_result) THEN CompareHands(player_result, dealer_total, bet)
    ELSE IF player_result = SurrenderCode THEN -(bet \div 2)
    ELSE player_result

\* line 249: the profit play_round returns
TotalProfit(result, side_bet_profit) == result + side_bet_profit

\* lines 217-249, once the dealer's loop (if entered) has ended
Settle ==
    /\ pc = "settle"
    /\ ~(NotBust(pr.player_result) /\ DealerDraws(pr.dealer_hand))
    /\ LET dealer_total == IF NotBust(pr.player_result)
                           THEN HandValue(pr.dealer_hand) ELSE pr.dealer_total
           result == RoundResult(pr.player_result, dealer_total, pr.bet)
       IN pr' = [pr EXCEPT
                   !.dealer_total = dealer_total,
                   !.result = result,
                   !.ret = [profit |-> TotalProfit(result, pr.side_bet_profit),
                            cards_used |-> pr.cards_used,
                            count_delta |-> pr.count_delta,
                            is_blackjack |-> pr.player_blackjack]]
    /\ pc' = "returned"
    /\ UNCHANGED <<random, instances, rules, explore, call, shoe, running_count, true_count,
                   cards_used, draw, ph, sim>>


(***************************************************************************)
(* simulator.py: BlackjackSimulator.simulate (lines 251-368).  The         *)
(* side-bet and dealer-bust tables (lines 261-268, 291-329) are write-only *)
(* tallies that no branch reads; the draws made on their behalf are kept.  *)
(***************************************************************************)
NoSim ==
    [num_rounds |-> 0, bet_unit |-> 0, round |-> 0, bets |-> <<>>,
     profits |-> <<>>, wins |-> 0, losses |-> 0, pushes |-> 0, blackjacks |-> 0,
     player_hand |-> <<>>, dealer_hand |-> <<>>, dealer_final_hand |-> <<>>,
     true_count |-> 0, outcome |-> "",
     stats |-> [hands_played |-> 0, wins |-> 0, losses |-> 0, pushes |-> 0,
                blackjacks |-> 0, total_wagered |-> 0, total_profit |-> 0]]

\* lines 253-258
EnterSimulate(num_rounds, bet_unit) ==
    /\ sim' = [NoSim EXCEPT !.num_rounds = num_rounds, !.bet_unit = bet_unit]
    /\ pc' = "sim_loop"

\* lines 270-277: the next round's wager is computed and recorded
SimBet ==
    /\ pc = "sim_loop"
    /\ sim.round < sim.num_rounds
    /\ sim' = [sim EXCEPT !.bets = Append(@, get_bet_size(sim.bet_unit)),
                          !.player_hand = <<>>, !.dealer_hand = <<>>,
                          !.dealer_final_hand = <<>>]
    /\ pc' = "sim_deal"
    /\ UNCHANGED <<random, instances, rules, explore, call, shoe, running_count, true_count,
                   cards_used, draw, pr, ph>>

\* lines 279-286: one of the four draws, player and dealer in turn
SimDeal(c) ==
    /\ pc = "sim_deal"
    /\ DrawCard(c)
    /\ LET n == Len(sim.player_hand) + Len(sim.dealer_hand)
       IN /\ sim' = [sim EXCEPT
                       !.player_hand = IF n % 2 = 0 THEN Append(@, c) ELSE @,
                       !.dealer_hand = IF n % 2 = 1 THEN Append(@, c) ELSE @]
          /\ pc' = IF n + 1 = 4 THEN "sim_track" ELSE "sim_deal"
    /\ UNCHANGED <<random, instances, rules, explore, call, pr, ph>>

\* round(x) of a number of tenths: to the nearest integer, ties to even
RoundInt(tenths) ==
    LET q == tenths \div 10
        r == tenths % 10
    IN IF r > 5 \/ (r = 5 /\ q % 2 = 1) THEN q + 1 ELSE q

\* line 290
InBand(tc) == 1 <= tc /\ tc <= 15

\* lines 288-311: the count band is tested and the dealer's hand is cloned
SimTrack ==
    /\ pc = "sim_track"
    /\ sim' = [sim EXCEPT !.true_count = RoundInt(true_count),
                          !.dealer_final_hand =
                              IF InBand(RoundInt(true_count)) THEN sim.dealer_hand ELSE @]
    /\ pc' = IF InBand(RoundInt(true_count)) THEN "sim_shadow" ELSE "sim_play"
    /\ UNCHANGED <<random, instances, rules, explore, call, shoe, running_count, true_count,
                   cards_used, draw, pr, ph>>

\* line 313
ShadowDealerDraws(hand) ==
    HandValue(hand) < 17
    \/ (HandValue(hand) = 17 /\ IsSoft(hand) /\ rules.dealer_hit_soft_17)

\* lines 313-314: the cloned dealer hand draws from the shoe
SimShadowDraw(c) ==
    /\ pc = "sim_shadow"
    /\ ShadowDealerDraws(sim.dealer_final_hand)
    /\ DrawCard(c)
    /\ sim' = [sim EXCEPT !.dealer_final_hand = Append(@, c)]
    /\ UNCHANGED <<random, instances, rules, explore, call, pc, pr, ph>>

\* lines 316-332
SimShadowDone ==
    /\ pc = "sim_shadow"
    /\ ~ShadowDealerDraws(sim.dealer_final_hand)
    /\ sim' = [sim EXCEPT !.dealer_hand = sim.dealer_final_hand]
    /\ pc' = "sim_play"
    /\ UNCHANGED <<random, instances, rules, explore, call, shoe, running_count, true_count,
                   cards_used, draw, pr, ph>>

\* line 335: play_round is called; simulate's own hands are not read again
SimPlayRound ==
    /\ pc = "sim_play"
    /\ EnterRound(sim.bet_unit)
    /\ sim' = [sim EXCEPT !.player_hand = <<>>, !.dealer_hand = <<>>,
                          !.dealer_final_hand = <<>>]
    /\ UNCHANGED <<random, instances, rules, explore, call, shoe, running_count, true_count,
                   cards_used, draw>>

\* Classify with the second test an "if" instead of an "elif": a winning
\* blackjack is counted as a win twice
ClassifyTwice(profit, is_blackjack) ==
    IF is_blackjack
    THEN [wins |-> IF profit > 0 THEN 2 ELSE 1, losses |-> IF profit < 0 THEN 1 ELSE 0,
          pushes |-> 0, blackjacks |-> 1]
    ELSE IF profit > 0 THEN [wins |-> 1, losses |-> 0, pushes |-> 0, blackjacks |-> 0]
    ELSE IF profit < 0 THEN [wins |-> 0, losses |-> 1, pushes |-> 0, blackjacks |-> 0]
    ELSE [wins |-> 0, losses |-> 0, pushes |-> 1, blackjacks |-> 0]

\* lines 338-346: the counters one round adds to
Classify(profit, is_blackjack) ==
    IF is_blackjack THEN [wins |-> 1, losses |-> 0, pushes |-> 0, blackjacks |-> 1]
    ELSE IF profit > 0 THEN [wins |-> 1, losses |-> 0, pushes |-> 0, blackjacks |-> 0]
    ELSE IF profit < 0 THEN [wins |-> 0, losses |-> 1, pushes |-> 0, blackjacks |-> 0]
    ELSE [wins |-> 0, losses |-> 0, pushes |-> 1, blackjacks |-> 0]

\* lines 335-346: play_round has returned to simulate
SimClassify ==
    /\ pc = "returned"
    /\ sim.round < sim.num_rounds
    /\ LET add == Classify(pr.ret.profit, pr.ret.is_blackjack)
       IN sim' = [sim EXCEPT !.profits = Append(@, pr.ret.profit),
                             !.wins = @ + add.wins,
                             !.losses = @ + add.losses,
                             !.pushes = @ + add.pushes,
                             !.blackjacks = @ + add.blackjacks,
                             !.round = @ + 1]
    /\ pr' = NoRound
    /\ ph' = NoHand
    /\ pc' = "sim_loop"
    /\ UNCHANGED <<random, instances, rules, explore, call, shoe, running_count, true_count,
                   cards_used, draw>>

RECURSIVE SeqSum(_)
SeqSum(xs) == IF xs = <<>> THEN 0 ELSE Head(xs) + SeqSum(Tail(xs))

\* lines 352-368: the first expression of the dictionary that raises, if any
StatsError(num_rounds, bets, profits) ==
    IF num_rounds = 0 THEN "ZeroDivisionError"
    ELSE IF SeqSum(bets) = 0 THEN "ZeroDivisionError"
    ELSE IF Len(profits) < 2 THEN "StatisticsError"
    ELSE ""

\* lines 348-368
SimFinish ==
    /\ pc = "sim_loop"
    /\ sim.round = sim.num_rounds
    /\ LET err == StatsError(sim.num_rounds, sim.bets, sim.profits)
       IN IF err # ""
          THEN sim' = [sim EXCEPT !.outcome = err] /\ pc' = "sim_raised"
          ELSE /\ sim' = [sim EXCEPT !.outcome = "returned", !.stats =
                            [hands_played |-> sim.num_rounds, wins |-> sim.wins,
                             losses |-> sim.losses, pushes |-> sim.pushes,
                             blackjacks |-> sim.blackjacks,
                             total_wagered |-> SeqSum(sim.bets),
                             total_profit |-> SeqSum(sim.profits)]]
               /\ pc' = "sim_returned"
    /\ UNCHANGED <<random, instances, rules, explore, call, shoe, running_count, true_count,
                   cards_used, draw, pr, ph>>

(***************************************************************************)
(* Hand's methods and get_basic_strategy_move called on their own          *)
(***************************************************************************)
\* no call made yet
NoCall ==
    [cards |-> <<>>, dealer_upcard |-> "", can_split |-> FALSE,
     can_double |-> FALSE, can_surrender |-> FALSE, move |-> "",
     value |-> 0, is_soft |-> FALSE, is_bust |-> FALSE, is_blackjack |-> FALSE]

(***************************************************************************)
(* rules.py: BlackjackRules, with its defaults (one deck instead of eight; *)
(* blackjack_payout in tenths)                                             *)
(***************************************************************************)
DefaultRules ==
    [blackjack_payout |-> 15, dealer_hit_soft_17 |-> TRUE, deck_count |-> 1,
     min_cards_before_shuffle |-> 0, double_after_split |-> TRUE,
     resplit_allowed |-> FALSE, hit_after_split_aces |-> FALSE,
     max_splits |-> 3, late_surrender |-> TRUE,
     min_bet |-> 10, max_bet |-> 400,
     enable_perfect_20 |-> FALSE, perfect_20_side_bet |-> 5,
     perfect_20_payout |-> 4]

\* BlackjackSimulator.__init__ (lines 12-17)
Constructed(r) ==
    /\ rules = r
    /\ shoe = BuildDeck(r.deck_count)
    /\ running_count = 0
    /\ true_count = 0
    /\ cards_used = 0
    /\ draw = [card |-> "", rebuilt |-> FALSE, rc |-> 0, tc |-> 0, remaining |-> 0]
    /\ pc = "idle"
    /\ pr = NoRound
    /\ ph = NoHand

\* one simulator in the process: the shuffles are modelled lazily, the generator
\* behind them is left out
OneSimulator ==
    /\ random = 0
    /\ instances = <<>>

(***************************************************************************)
(* One call of play_round on a simulator just constructed                  *)
(***************************************************************************)
RoundRanks == {"A", "10", "8", "6", "5"}

RoundRules ==
    {DefaultRules,
     [DefaultRules EXCEPT !.dealer_hit_soft_17 = FALSE]}

RoundUnits == {10}

InitRound ==
    /\ OneSimulator
    /\ \E r \in RoundRules : Constructed(r)
    /\ explore = [ranks |-> RoundRanks, rounds |-> 0]
    /\ sim = NoSim
    /\ call = NoCall

CallPlayRound ==
    /\ pc = "idle"
    /\ \E u \in RoundUnits : EnterRound(u)
    /\ UNCHANGED <<random, instances, rules, explore, call, shoe, running_count, true_count,
                   cards_used, draw, sim>>

\* the longest round explored, in cards drawn
MaxRoundCards == 7

\* the shuffle brings some rank of explore to the top of the shoe
TopCards == IF pr.cards_used < MaxRoundCards THEN explore.ranks ELSE {}

DealInitialStep == \E c \in TopCards : DealInitial(c)
HitStep == \E c \in TopCards : Hit(c)
DoubleStep == \E c \in TopCards : Double(c)
SplitDrawStep == \E c \in TopCards : SplitDraw(c)
SplitDealerDrawStep == \E c \in TopCards : SplitDealerDraw(c)
DealerDrawStep == \E c \in TopCards : DealerDraw(c)

RoundStep ==
    \/ DealInitialStep
    \/ Naturals
    \/ Stand
    \/ HitStep
    \/ DoubleStep
    \/ Split
    \/ Surrender
    \/ SplitDrawStep
    \/ SplitDealerDrawStep
    \/ SplitSettle
    \/ DealerDrawStep
    \/ Settle

NextRound == CallPlayRound \/ RoundStep

SpecRound == InitRound /\ [][NextRound]_vars


(***************************************************************************)
(* One call of simulate on a simulator just constructed                    *)
(***************************************************************************)
\* the most rounds asked of simulate
MaxRounds == 2

\* the explored runs: a two-deck shoe dealt without reshuffle for one round
\* at most (the count rises and the side bet is placed), a shoe reshuffled
\* before nearly every draw for up to MaxRounds rounds, and the same with a
\* max_bet below min_bet
SimConfigs ==
    {[rules |-> [DefaultRules EXCEPT !.enable_perfect_20 = TRUE, !.deck_count = 2],
      ranks |-> {"A", "10", "5"}, rounds |-> 1],
     [rules |-> [DefaultRules EXCEPT !.min_cards_before_shuffle = 51],
      ranks |-> {"A", "10"}, rounds |-> MaxRounds],
     [rules |-> [DefaultRules EXCEPT !.min_cards_before_shuffle = 51, !.max_bet = 5],
      ranks |-> {"A", "10"}, rounds |-> MaxRounds]}

SimUnits == {10}

InitSim ==
    /\ OneSimulator
    /\ \E cfg \in SimConfigs :
        /\ Constructed(cfg.rules)
        /\ explore = [ranks |-> cfg.ranks, rounds |-> cfg.rounds]
    /\ sim = NoSim
    /\ call = NoCall

\* simulate(num_rounds, bet_unit) is called
CallSimulate ==
    /\ pc = "idle"
    /\ \E n \in 0..explore.rounds, u \in SimUnits : EnterSimulate(n, u)
    /\ UNCHANGED <<random, instances, rules, explore, call, shoe, running_count, true_count,
                   cards_used, draw, pr, ph>>

\* the longest dealer playout explored for the tallies, in cards
MaxShadowCards == 4

SimDealStep == \E c \in explore.ranks : SimDeal(c)
SimShadowDrawStep ==
    /\ Len(sim.dealer_final_hand) < MaxShadowCards
    /\ \E c \in explore.ranks : SimShadowDraw(c)

NextSim ==
    \/ CallSimulate
    \/ SimBet
    \/ SimDealStep
    \/ SimTrack
    \/ SimShadowDrawStep
    \/ SimShadowDone
    \/ SimPlayRound
    \/ RoundStep
    \/ SimClassify
    \/ SimFinish

SpecSim == InitSim /\ [][NextSim]_vars


(***************************************************************************)
(* draw_card called again and again on a simulator just constructed.       *)
(* draw_card reads a card's rank only through hilo_count, so of the cards  *)
(* of one Hi-Lo class the shuffles explored bring the ranks up in the      *)
(* order of Card.RANKS.                                                    *)
(***************************************************************************)
RankIndex(r) == CHOOSE i \in 1..Len(RANKS) : RANKS[i] = r

\* the ranks that can come next from the deck cards
ClassLeaders(cards) ==
    {r \in RankSet :
        /\ cards[r] > 0
        /\ \A q \in RankSet :
              (hilo_count(q) = hilo_count(r) /\ RankIndex(q) < RankIndex(r))
                  => cards[q] = 0}

\* the least number of cards before a reshuffle, in the second configuration
DrawThreshold == 45

DrawRules ==
    {DefaultRules,
     [DefaultRules EXCEPT !.min_cards_before_shuffle = DrawThreshold]}

InitDraw ==
    /\ OneSimulator
    /\ \E r \in DrawRules : Constructed(r)
    /\ explore = [ranks |-> RankSet, rounds |-> 0]
    /\ sim = NoSim
    /\ call = NoCall

DrawStep ==
    /\ pc = "idle"
    /\ \E c \in ClassLeaders(IF NeedsReshuffle THEN BuildDeck(rules.deck_count) ELSE shoe) :
          DrawCard(c)
    /\ UNCHANGED <<random, instances, rules, explore, call, pc, pr, ph, sim>>

NextDraw == DrawStep

SpecDraw == InitDraw /\ [][NextDraw]_vars

(***************************************************************************)
(* get_bet_size called once, for every true count, unit and pair of table  *)
(* limits within the bounds                                                *)
(***************************************************************************)
\* the largest true count, in tenths, either side of zero
MaxTrueCount == 30

\* the largest table limit and the largest unit, in whole units
MaxLimit == 4
MaxUnit == 4

TrueCounts == -MaxTrueCount..MaxTrueCount

InitBet ==
    /\ OneSimulator
    /\ \E lo \in 0..MaxLimit, hi \in 0..MaxLimit :
          rules = [DefaultRules EXCEPT !.min_bet = lo, !.max_bet = hi]
    /\ true_count \in TrueCounts
    /\ shoe = BuildDeck(rules.deck_count)
    /\ running_count = 0
    /\ cards_used = 0
    /\ draw = [card |-> "", rebuilt |-> FALSE, rc |-> 0, tc |-> 0, remaining |-> 0]
    /\ pc = "idle"
    /\ pr = NoRound
    /\ ph = NoHand
    /\ explore = [ranks |-> {}, rounds |-> 0]
    /\ sim = NoSim
    /\ call = NoCall

\* get_bet_size(u) is called; the result is kept in pr.bet
CallGetBetSize ==
    /\ pc = "idle"
    /\ \E u \in 0..MaxUnit :
          pr' = [NoRound EXCEPT !.min_bet = u, !.bet = get_bet_size(u)]
    /\ pc' = "bet"
    /\ UNCHANGED <<random, instances, rules, explore, call, shoe, running_count, true_count,
                   cards_used, draw, ph, sim>>

NextBet == CallGetBetSize

SpecBet == InitBet /\ [][NextBet]_vars


(***************************************************************************)
(* One call of play_round on a simulator just constructed, the shuffle     *)
(* bringing any four cards to the initial deal: every two-card hand meets  *)
(* every dealer upcard                                                     *)
(***************************************************************************)
DealtRanks == {"10", "8"}

DealtRules == {DefaultRules}

InitDealt ==
    /\ OneSimulator
    /\ \E r \in DealtRules : Constructed(r)
    /\ explore = [ranks |-> DealtRanks, rounds |-> 0]
    /\ sim = NoSim
    /\ call = NoCall

DealAnyStep == \E c \in RankSet : DealInitial(c)

NextDealt ==
    \/ CallPlayRound
    \/ DealAnyStep
    \/ Naturals
    \/ Stand
    \/ HitStep
    \/ DoubleStep
    \/ Split
    \/ Surrender
    \/ SplitDrawStep
    \/ SplitDealerDrawStep
    \/ SplitSettle
    \/ DealerDrawStep
    \/ Settle

SpecDealt == InitDealt /\ [][NextDealt]_vars


(***************************************************************************)
(* get_basic_strategy_move called once, for every hand, dealer upcard and  *)
(* flags within the bounds.  The first two cards of the hand are of any    *)
(* rank, the later ones of the ranks of ExtraRanks.                        *)
(***************************************************************************)
\* the most cards of a hand
MaxHandCards == 3

ExtraRanks == {"A", "2", "3", "6", "9", "10"}

\* the sequences of 0..n cards of the ranks R
RECURSIVE HandsOver(_, _)
HandsOver(R, n) ==
    IF n = 0 THEN {<<>>}
    ELSE LET shorter == HandsOver(R, n - 1)
         IN shorter \cup {Append(h, r) : h \in shorter, r \in R}

StrategyHands ==
    {a \o b : a \in {h \in HandsOver(RankSet, 2) : Len(h) = 2},
              b \in HandsOver(ExtraRanks, MaxHandCards - 2)}

\* every field of a simulator just constructed but call
StandingBy ==
    /\ Constructed(DefaultRules)
    /\ explore = [ranks |-> {}, rounds |-> 0]
    /\ sim = NoSim

InitStrategy ==
    /\ OneSimulator
    /\ StandingBy
    /\ \E cards \in StrategyHands, d \in RankSet,
          can_split \in BOOLEAN, can_double \in BOOLEAN, can_surrender \in BOOLEAN :
          call = [NoCall EXCEPT !.cards = cards, !.dealer_upcard = d,
                                !.can_split = can_split, !.can_double = can_double,
                                !.can_surrender = can_surrender]

\* rules.py lines 70-169: the move is returned
CallStrategy ==
    /\ pc = "idle"
    /\ call' = [call EXCEPT
                  !.move = get_basic_strategy_move(call.cards, call.dealer_upcard,
                                                   call.can_split, call.can_double,
                                                   call.can_surrender)]
    /\ pc' = "decided"
    /\ UNCHANGED <<random, instances, rules, explore, shoe, running_count, true_count,
                   cards_used, draw, pr, ph, sim>>

NextStrategy == CallStrategy

SpecStrategy == InitStrategy /\ [][NextStrategy]_vars

(***************************************************************************)
(* Hand.value, is_soft, is_bust and is_blackjack called on every hand of   *)
(* at most MaxHandCards cards                                              *)
(***************************************************************************)
InitHand ==
    /\ OneSimulator
    /\ StandingBy
    /\ \E cards \in HandsOver(RankSet, MaxHandCards) :
          call = [NoCall EXCEPT !.cards = cards]

\* models.py lines 34-73
CallHand ==
    /\ pc = "idle"
    /\ call' = [call EXCEPT
                  !.value = HandValue(call.cards),
                  !.is_soft = IsSoft(call.cards),
                  !.is_bust = IsBust(call.cards),
                  !.is_blackjack = IsBlackjack(call.cards)]
    /\ pc' = "measured"
    /\ UNCHANGED <<random, instances, rules, explore, shoe, running_count, true_count,
                   cards_used, draw, pr, ph, sim>>

NextHand == CallHand

SpecHand == InitHand /\ [][NextHand]_vars


(***************************************************************************)
(*                               Properties                                *)
(***************************************************************************)
\* the number of cards of rules.deck_count decks
FullShoe == Len(RANKS) * NumSuits * rules.deck_count

\* a hand total against the dealer's for a wager w: won, lost or pushed
Against(total, dealer, w) ==
    IF dealer > 21 \/ total > dealer THEN w
    ELSE IF total < dealer THEN -w
    ELSE 0

\* the round in progress split its pair
SplitRound == ph.hand1 # <<>>

\* the round in progress was ended by a natural
NaturalRound == IsBlackjack(pr.player_hand) \/ IsBlackjack(pr.dealer_hand)

(* C1: in every run of simulate, after each round exactly one of wins,     *)
(* losses and pushes has been incremented, a blackjack is also a win, and  *)
(* the statistics returned satisfy wins + losses + pushes = hands_played.  *)
C1_CountersSumToHands ==
    /\ sim.wins + sim.losses + sim.pushes = sim.round
    /\ sim.blackjacks <= sim.wins
    /\ pc = "sim_returned" =>
          /\ sim.stats.wins + sim.stats.losses + sim.stats.pushes
                = sim.stats.hands_played
          /\ sim.stats.hands_played = sim.num_rounds
          /\ sim.stats.blackjacks <= sim.stats.wins

\* simulate has returned after two rounds, a player blackjack and a loss
C1_Witness ==
    /\ pc = "sim_returned"
    /\ sim.stats.hands_played = 2
    /\ sim.stats.blackjacks = 1
    /\ sim.stats.losses = 1

\* what the claim says a split hand brings: its own settlement against the
\* dealer's final total, on the bet, or twice the bet if the hand doubled
SplitHandSettlement(frame, hand, bet) ==
    LET w == IF frame \in ph.doubled THEN 2 * bet ELSE bet
    IN IF frame \in ph.surrendered THEN -(w \div 2)
       ELSE IF IsBust(hand) THEN -w
       ELSE Against(HandValue(hand), HandValue(pr.dealer_hand), w)

(* C2: when the player split, the main-hand profit of the round is the sum *)
(* of the two split hands' own settlements against the dealer.             *)
C2_SplitProfitIsSumOfHands ==
    (pc = "returned" /\ SplitRound) =>
        pr.result = SplitHandSettlement("hand1", ph.hand1, pr.bet)
                    + SplitHandSettlement("hand2", ph.hand2, pr.bet)

(* C3: a main hand that doubled and did not bust is settled on twice the   *)
(* round's bet: won, lost or pushed against the dealer.                    *)
C3_DoubleSettledOnDoubledWager ==
    (pc = "returned" /\ "main" \in ph.doubled /\ ~IsBust(pr.player_hand)) =>
        pr.result = Against(HandValue(pr.player_hand), HandValue(pr.dealer_hand),
                            2 * pr.bet)

\* the dealer's rule as the claim states it
DealerRuleDraws(hand) ==
    HandValue(hand) < 17
    \/ (HandValue(hand) = 17 /\ IsSoft(hand) /\ rules.dealer_hit_soft_17)

C5_NaturalsSettleAtOnce ==
    (pc = "returned" /\ NaturalRound) =>
        /\ pr.cards_used = 4
        /\ pr.ret.cards_used = 4
        /\ Len(pr.player_hand) = 2
        /\ Len(pr.dealer_hand) = 2
        /\ CardsRemaining(shoe) = FullShoe - 4
        /\ pr.bet > 0
        /\ (IsBlackjack(pr.player_hand) /\ IsBlackjack(pr.dealer_hand)) =>
              (pr.ret.profit = 0 /\ ~pr.ret.is_blackjack)
        /\ (IsBlackjack(pr.player_hand) /\ ~IsBlackjack(pr.dealer_hand)) =>
              (10 * pr.ret.profit = pr.bet * rules.blackjack_payout
               /\ pr.ret.is_blackjack)
        /\ (~IsBlackjack(pr.player_hand) /\ IsBlackjack(pr.dealer_hand)) =>
              (pr.ret.profit = -pr.bet /\ ~pr.ret.is_blackjack)

\* a round has returned on a player blackjack against a dealer without one
C5_Witness ==
    /\ pc = "returned"
    /\ IsBlackjack(pr.player_hand)
    /\ ~IsBlackjack(pr.dealer_hand)
    /\ pr.ret.profit > pr.bet

\* the main-hand profit of a returned round
MainHandProfit ==
    IF NaturalRound
    THEN (IF IsBlackjack(pr.player_hand) /\ IsBlackjack(pr.dealer_hand) THEN 0
          ELSE IF IsBlackjack(pr.player_hand)
               THEN (pr.bet * rules.blackjack_payout) \div 10
          ELSE -pr.bet)
    ELSE pr.result

(* C6: whenever the Perfect 20 side bet was placed in a round, the profit  *)
(* play_round returns is the main-hand profit plus the side-bet profit,    *)
(* whatever ended the round.                                               *)
C6_ProfitIncludesSideBet ==
    (pc = "returned" /\ pr.make_side_bet) =>
        pr.ret.profit = MainHandProfit + pr.side_bet_profit

(* C7: while play_round runs for a round of simulate, the bet it settles   *)
(* on is the wager simulate recorded for that round.                       *)
C7_RecordedWagerIsSettledWager ==
    (pc \in {"deal", "naturals", "play_hand", "split_draw", "split_settle",
             "settle", "returned"} /\ sim.bets # <<>>) =>
        pr.bet = sim.bets[Len(sim.bets)]

(* C8: a draw made with no more cards left than min_cards_before_shuffle   *)
(* leaves a fresh shoe less the card returned, and both counts at zero.    *)
C8_RebuildDrawLeavesCountsZero ==
    (draw.card # "" /\ draw.remaining <= rules.min_cards_before_shuffle) =>
        /\ draw.rebuilt
        /\ running_count = 0
        /\ true_count = 0
        /\ CardsRemaining(shoe) = FullShoe - 1
        /\ shoe[draw.card] = NumSuits * rules.deck_count - 1

\* a draw has rebuilt the shoe and returned a card that has a Hi-Lo weight
C8_Witness ==
    /\ draw.card # ""
    /\ draw.rebuilt
    /\ draw.rc # 0
    /\ hilo_count(draw.card) # 0

\* the Hi-Lo weights as the claim lists them
HiLoWeight(rank) ==
    IF rank \in {"2", "3", "4", "5", "6"} THEN 1
    ELSE IF rank \in {"7", "8", "9"} THEN 0
    ELSE -1

Abs(a) == IF a >= 0 THEN a ELSE -a

\* t (tenths) is x / y rounded to one decimal
IsRoundedQuotient(t, x, y) == 2 * Abs(t * y - 10 * x) <= y

(* C9: after every draw that does not rebuild the shoe, the running count   *)
(* has moved by the card's weight and the true count is the running count  *)
(* over the decks remaining, rounded to one decimal, never a value left    *)
(* from an earlier draw.                                                   *)
C9_TrueCountFollowsEveryDraw ==
    (draw.card # "" /\ ~draw.rebuilt) =>
        /\ running_count = draw.rc + HiLoWeight(draw.card)
        /\ CardsRemaining(shoe) > 0
        /\ IsRoundedQuotient(true_count, running_count * 52, CardsRemaining(shoe))

(* C10: with min_bet <= max_bet the bet is u * max(1, true_count + 1)      *)
(* brought into the table limits: it lies within them, it does not fall    *)
(* when the true count rises, and for a true count of zero or less it is   *)
(* u brought into the limits.                                              *)
C10_BetWithinLimitsAndMonotone ==
    (pc = "bet" /\ rules.min_bet <= rules.max_bet) =>
        LET lo == rules.min_bet * 100
            hi == rules.max_bet * 100
            u == pr.min_bet * 100
            raw == IF true_count <= 0 THEN u ELSE (u * (true_count + 10)) \div 10
            Clamp(x) == IF x < lo THEN lo ELSE IF x > hi THEN hi ELSE x
        IN /\ lo <= pr.bet /\ pr.bet <= hi
           /\ pr.bet = Clamp(raw)
           /\ true_count <= 0 => pr.bet = Clamp(u)
           /\ \A t \in TrueCounts :
                 t >= true_count =>
                    BetFor(pr.min_bet, t, rules.min_bet, rules.max_bet) >= pr.bet

\* a bet has been raised by a positive true count and not clamped
C10_Witness ==
    /\ pc = "bet"
    /\ true_count > 0
    /\ rules.min_bet * 100 < pr.bet
    /\ pr.bet < rules.max_bet * 100
    /\ pr.bet > pr.min_bet * 100

\* the hand is two cards without an ace, a hard total
TwoCardHard(hand) == Len(hand) = 2 /\ hand[1] # "A" /\ hand[2] # "A"

\* the hands the claim has surrender: hard 16, unless a pair of 8s that can
\* be split, against a dealer 9, 10 or ace; hard 15 against a dealer 10
ClaimedSurrender(hand, upcard, can_split) ==
    /\ TwoCardHard(hand)
    /\ LET total == CardValue(hand[1]) + CardValue(hand[2])
       IN \/ /\ total = 16
             /\ CardValue(upcard) \in {9, 10, 11}
             /\ ~(can_split /\ hand[1] = "8" /\ hand[2] = "8")
          \/ /\ total = 15
             /\ CardValue(upcard) = 10

(* C11: with surrender enabled the strategy has a two-card hard 16 that is *)
(* not a splittable pair of 8s surrender against a dealer 9, 10 or ace,    *)
(* and a two-card hard 15 against a dealer 10; a round whose initial hand  *)
(* surrenders loses exactly half the bet and the dealer draws no card.     *)
C11_SurrenderLosesHalfTheBet ==
    /\ (pc = "play_hand" /\ rules.late_surrender
        /\ ClaimedSurrender(CurHand, pr.dealer_hand[1], CurCanSplit)) =>
          /\ get_basic_strategy_move(CurHand, pr.dealer_hand[1], CurCanSplit,
                                     CanDouble(CurHand, CurSplitAces),
                                     rules.late_surrender) = "R"
          /\ ChosenAction = "R"
    /\ (pc \in {"settle", "returned"} /\ "main" \in ph.surrendered) =>
          /\ Len(pr.dealer_hand) = 2
          /\ Len(pr.player_hand) = 2
          /\ pr.cards_used = 4
    /\ (pc = "returned" /\ "main" \in ph.surrendered) =>
          /\ 2 * pr.result = -pr.bet
          /\ pr.ret.profit = pr.result + pr.side_bet_profit
          /\ pr.ret.cards_used = 4

\* a round has returned after the initial hard 16 surrendered to a dealer 9
C11_Witness ==
    /\ pc = "returned"
    /\ "main" \in ph.surrendered
    /\ HandValue(pr.player_hand) = 16
    /\ pr.dealer_hand[1] = "9"
    /\ pr.result < 0

(* C12: for a two-card pair of 8s with can_split the strategy returns      *)
(* Split against every dealer upcard, whatever can_surrender and           *)
(* can_double are; without can_split, and with can_surrender, the pair     *)
(* surrenders against a dealer 9, 10 or ace as any other hard 16 does.     *)
C12_EightsAreSplitNotSurrendered ==
    (pc = "decided" /\ call.cards = <<"8", "8">>) =>
        /\ call.can_split => call.move = "P"
        /\ (~call.can_split /\ call.can_surrender
            /\ CardValue(call.dealer_upcard) \in {9, 10, 11}) => call.move = "R"
        /\ call.move = "R" =>
              (~call.can_split /\ call.can_surrender
               /\ CardValue(call.dealer_upcard) \in {9, 10, 11})

\* the strategy has split a pair of 8s against a dealer 10 with surrender allowed
C12_Witness ==
    /\ pc = "decided"
    /\ call.cards = <<"8", "8">>
    /\ call.dealer_upcard = "10"
    /\ call.can_split
    /\ call.can_surrender
    /\ call.move = "P"

(* C13: for every hand, dealer upcard and flags the strategy returns one   *)
(* of H, S, D, P, R, and Double only with can_double and exactly two       *)
(* cards, Split only with can_split and two cards of equal rank,           *)
(* Surrender only with can_surrender and a two-card hard total.            *)
C13_StrategyReturnsLegalActions ==
    pc = "decided" =>
        /\ call.move \in {"H", "S", "D", "P", "R"}
        /\ call.move = "D" => (call.can_double /\ Len(call.cards) = 2)
        /\ call.move = "P" =>
              (call.can_split /\ Len(call.cards) = 2 /\ call.cards[1] = call.cards[2])
        /\ call.move = "R" =>
              (call.can_surrender /\ Len(call.cards) = 2 /\ ~IsSoft(call.cards))

\* the round in progress split a pair of aces that may not be hit
SplitAcesRound == SplitRound /\ ph.hand1[1] = "A" /\ ~rules.hit_after_split_aces

(* C14: when aces are split with hit_after_split_aces = False, each of the *)
(* two hands receives exactly one card and never hits, doubles or splits:  *)
(* each holds exactly two cards when its resolution completes.             *)
C14_SplitAcesGetOneCard ==
    SplitAcesRound =>
        /\ Len(ph.hand1) <= 2
        /\ Len(ph.hand2) <= 2
        /\ ph.doubled = {}
        /\ ph.surrendered = {}
        /\ pc # "play_hand"
        /\ ph.frame \in {"hand2", "split", "main"} => Len(ph.hand1) = 2
        /\ ph.frame \in {"split", "main"} => Len(ph.hand2) = 2

\* a round has returned after split aces drew to a soft 16 and a soft 21
C14_Witness ==
    /\ pc = "returned"
    /\ SplitAcesRound
    /\ ph.hand1 = <<"A", "5">>
    /\ ph.hand2 = <<"A", "10">>

(* C15: in a round with a split the dealer's hand is played out once,      *)
(* after both split hands have resolved: no card is added to it before     *)
(* the second hand has returned, and none once the hands have been         *)
(* compared with the dealer's total and play_hand has returned.            *)
C15_DealerPlaysOnceAfterSplit ==
    [][(SplitRound /\ pc # "split_settle") => pr'.dealer_hand = pr.dealer_hand]_vars

\* play_round is past its side bet (line 90) and has not returned to simulate
PastSideBet ==
    pc \in {"play_hand", "split_draw", "split_settle", "settle", "returned"}

(* C16: the Perfect 20 side bet is placed exactly when enable_perfect_20   *)
(* is set and the true count right after the four-card deal is >= 3; when  *)
(* placed its profit is minus the stake, plus stake * perfect_20_payout if *)
(* the player's two dealt cards total exactly 20; otherwise it is 0.       *)
C16_SideBetPlacedOnHighCount ==
    PastSideBet =>
        LET stake == rules.perfect_20_side_bet * 100
            dealt == SubSeq(pr.player_hand, 1, 2)
            twenty == CardValue(dealt[1]) + CardValue(dealt[2]) = 20
        IN /\ pr.cards_used = 4 =>
                 (pr.make_side_bet <=> (rules.enable_perfect_20 /\ true_count >= 30))
           /\ pr.make_side_bet => rules.enable_perfect_20
           /\ (pr.make_side_bet /\ twenty) =>
                 pr.side_bet_profit = stake * rules.perfect_20_payout - stake
           /\ (pr.make_side_bet /\ ~twenty) => pr.side_bet_profit = -stake
           /\ ~pr.make_side_bet => pr.side_bet_profit = 0

\* the side bet was placed on a true count of 3 or more and won by a 20
C16_Witness ==
    /\ pc = "returned"
    /\ pr.make_side_bet
    /\ pr.side_bet_profit > 0
    /\ HandValue(SubSeq(pr.player_hand, 1, 2)) = 20

(* C17: for every round without a split, doubled or not, the profit        *)
(* returned is at most wager * max(blackjack_payout, 1) + side-bet stake   *)
(* * side-bet payout in absolute value, the wager being the round's bet.   *)
C17_NonSplitProfitBounded ==
    (pc = "returned" /\ ~SplitRound) =>
        10 * Abs(pr.ret.profit)
            <= pr.bet * Max(rules.blackjack_payout, 10)
               + 10 * (rules.perfect_20_side_bet * 100) * rules.perfect_20_payout

\* a round without a split has returned after the player doubled
C17_Witness ==
    /\ pc = "returned"
    /\ ~SplitRound
    /\ "main" \in ph.doubled
    /\ pr.ret.profit # 0

\* the total of a hand with every ace counted as 1
HardTotal(cards) == NonAceSum(cards) + NumAces(cards)

(* C18: no hand is soft and bust at once: a hand is bust only when its     *)
(* total with every ace counted as 1 exceeds 21, and its value never       *)
(* exceeds 21 while some ace is counted as 11.                             *)
C18_SoftHandsAreNeverBust ==
    pc = "measured" =>
        /\ ~(call.is_soft /\ call.is_bust)
        /\ call.is_bust <=> HardTotal(call.cards) > 21
        /\ call.value > 21 => call.value = HardTotal(call.cards)

(* C19: simulate asked for zero rounds returns its statistics without      *)
(* raising, the rates whose denominator is zero reported as zero or left   *)
(* out.                                                                    *)
C19_ZeroRoundsReturnStatistics ==
    (pc \in {"sim_returned", "sim_raised"} /\ sim.num_rounds = 0) =>
        /\ pc = "sim_returned"
        /\ sim.outcome = "returned"
        /\ sim.stats.hands_played = 0

(* C20: a configuration with max_bet < min_bet is rejected before any      *)
(* round is played: simulate records no wager, plays no round and returns  *)
(* no statistics for it.                                                   *)
C20_InvalidLimitsPlayNoRound ==
    rules.max_bet < rules.min_bet =>
        /\ sim.bets = <<>>
        /\ ~PastSideBet
        /\ pc \notin {"deal", "naturals", "sim_returned"}

(***************************************************************************)
(* Two simulators run side by side in one process.  Here a shoe is the     *)
(* list of its cards, and Deck.shuffle is the permutation that the         *)
(* generator of module random gives from its state, which the call         *)
(* advances.  Beside each simulator runs its twin, the same simulator run  *)
(* alone from the same seed: the same calls, on a generator of its own.    *)
(***************************************************************************)
\* the states of the generator that are told apart
RandomStates == 5

Instances == {1, 2}

\* Card.SUITS: spades, clubs, hearts, diamonds
SUITS == <<"S", "C", "H", "D">>

RECURSIVE Repeat(_, _)
Repeat(s, n) == IF n = 0 THEN <<>> ELSE s \o Repeat(s, n - 1)

\* lines 88-90: the cards of one deck, rank by rank, each in the order of SUITS
OneDeck ==
    [k \in 1..(Len(RANKS) * Len(SUITS)) |->
        [rank |-> RANKS[((k - 1) \div Len(SUITS)) + 1],
         suit |-> SUITS[((k - 1) % Len(SUITS)) + 1]]]

\* Deck.build_deck in order
BuildDeckInOrder(num_decks) == Repeat(OneDeck, num_decks)

Rotate(s, k) == SubSeq(s, k + 1, Len(s)) \o SubSeq(s, 1, k)

\* random.shuffle(cards) with the generator in state g: a permutation of the
\* cards that the state decides
Shuffled(cards, g) == Rotate(cards, (7 * g + 3) % Len(cards))

\* the generator after a shuffle
Advance(g) == (g + 1) % RandomStates

\* Deck(num_decks): built and shuffled
NewDeck(num_decks, g) == Shuffled(BuildDeckInOrder(num_decks), g)

\* AllButLast taking the first card away instead of the last
AllButFirst(s) == SubSeq(s, 2, Len(s))

\* Deck.deal: the cards that pop() leaves
AllButLast(s) == SubSeq(s, 1, Len(s) - 1)

\* no card returned yet
NoCard == [rank |-> "", suit |-> ""]

\* BlackjackSimulator.__init__ with the generator in state g
NewSimulator(r, g) ==
    [self |-> [cards |-> NewDeck(r.deck_count, g), running_count |-> 0,
               true_count |-> 0, cards_used |-> 0],
     random |-> Advance(g), card |-> NoCard]

\* draw_card on the simulator s with the generator in state g: the simulator
\* and the generator after the call, and the card returned
DrawCardOf(s, r, g) ==
    IF Len(s.cards) <= r.min_cards_before_shuffle
    THEN LET deck == NewDeck(r.deck_count, g)
         IN [self |-> [cards |-> AllButLast(deck), running_count |-> 0,
                       true_count |-> 0, cards_used |-> 0],
             random |-> Advance(g), card |-> deck[Len(deck)]]
    ELSE LET card == s.cards[Len(s.cards)]
             rc == s.running_count + hilo_count(card.rank)
         IN [self |-> [cards |-> AllButLast(s.cards), running_count |-> rc,
                       true_count |-> TrueCountAfter(rc, Len(s.cards) - 1, s.true_count),
                       cards_used |-> s.cards_used + 1],
             random |-> g, card |-> card]

\* a simulator not yet constructed, and its twin
NoInstance ==
    [built |-> FALSE, rules |-> DefaultRules, calls |-> 0,
     self |-> [cards |-> <<>>, running_count |-> 0, true_count |-> 0, cards_used |-> 0],
     card |-> NoCard,
     alone |-> [cards |-> <<>>, running_count |-> 0, true_count |-> 0, cards_used |-> 0],
     alone_card |-> NoCard, alone_random |-> 0]

\* the cards drawn from a shoe before it is rebuilt
PairDepth == 2

\* the rules of a simulator of the pair: one deck or two
PairRules ==
    {[DefaultRules EXCEPT !.deck_count = n,
                          !.min_cards_before_shuffle =
                              n * Len(SUITS) * Len(RANKS) - PairDepth] : n \in {1, 2}}

\* the process starts seeded, no simulator constructed
InitPair ==
    /\ StandingBy
    /\ call = NoCall
    /\ random = 0
    /\ instances = [i \in Instances |-> NoInstance]

\* simulator i is constructed
Construct(i) ==
    /\ ~instances[i].built
    /\ \E r \in PairRules :
       LET real == NewSimulator(r, random)
           twin == NewSimulator(r, instances[i].alone_random)
       IN /\ random' = real.random
          /\ instances' = [instances EXCEPT
                             ![i] = [built |-> TRUE, rules |-> r, calls |-> 0,
                                     self |-> real.self, card |-> real.card,
                                     alone |-> twin.self, alone_card |-> twin.card,
                                     alone_random |-> twin.random]]
    /\ UNCHANGED <<rules, explore, shoe, running_count, true_count, cards_used,
                   draw, pc, pr, ph, sim, call>>

\* the most draw_card calls followed on one simulator
MaxCalls == 5

\* simulator i draws a card
InstanceDraw(i) ==
    /\ instances[i].built
    /\ instances[i].calls < MaxCalls
    /\ LET r == instances[i].rules
           real == DrawCardOf(instances[i].self, r, random)
           twin == DrawCardOf(instances[i].alone, r, instances[i].alone_random)
       IN /\ random' = real.random
          /\ instances' = [instances EXCEPT
                             ![i] = [built |-> TRUE, rules |-> r, calls |-> @.calls + 1,
                                     self |-> real.self, card |-> real.card,
                                     alone |-> twin.self, alone_card |-> twin.card,
                                     alone_random |-> twin.random]]
    /\ UNCHANGED <<rules, explore, shoe, running_count, true_count, cards_used,
                   draw, pc, pr, ph, sim, call>>

ConstructStep == \E i \in Instances : Construct(i)
InstanceDrawStep == \E i \in Instances : InstanceDraw(i)

NextPair == ConstructStep \/ InstanceDrawStep

SpecPair == InitPair /\ [][NextPair]_vars

\* C21: whatever the interleaving of two simulators of one process, each has
\* the shoe (in order), the counts and the cards returned that it has when
\* run alone from the same seed.
C21_InstancesAreIndependent ==
    \A i \in Instances :
        instances[i].built =>
            /\ instances[i].self = instances[i].alone
            /\ instances[i].card = instances[i].alone_card

\* the copies of card c in the list s
Copies(s, c) == Cardinality({k \in 1..Len(s) : s[k] = c})

\* the cards of rank r in the list s
OfRank(s, r) == Cardinality({k \in 1..Len(s) : s[k].rank = r})

\* the shoe of simulator i in inst holds no more than its decks
ShoeWithinDecks(inst, i) ==
    LET cards == inst[i].self.cards
        n == inst[i].rules.deck_count
    IN /\ \A k \in 1..Len(cards) : Copies(cards, cards[k]) <= n
       /\ \A r \in RankSet : OfRank(cards, r) <= NumSuits * n
       /\ Len(cards) <= Len(RANKS) * NumSuits * n

\* C22: the shoe never holds more than deck_count copies of a card (so at most
\* 4 * deck_count of a rank and 52 * deck_count in all), and between two
\* rebuilds every draw takes exactly the last card of the shoe away and puts
\* none back.
C22_ShoeOnlyShrinksBetweenRebuilds ==
    [][\A i \in Instances :
          /\ instances'[i].built => ShoeWithinDecks(instances', i)
          /\ (instances[i].built /\ instances'[i] # instances[i]
                 /\ instances'[i].self.cards_used # 0)
             => LET before == instances[i].self.cards
                IN /\ instances'[i].self.cards = SubSeq(before, 1, Len(before) - 1)
                   /\ instances'[i].card = before[Len(before)]]_vars

\* a simulator has drawn from its first shoe, rebuilt it and drawn again
C22_Witness ==
    \E i \in Instances :
        /\ instances[i].built
        /\ instances[i].calls > PairDepth + 1
        /\ instances[i].self.cards_used = 1
        /\ instances[i].rules.deck_count = 2

(***************************************************************************)
(* One call of play_round at a table of small wagers, with and without     *)
(* surrender                                                               *)
(***************************************************************************)
\* the largest betting unit asked of play_round
MaxWager == 3

WagerRanks == {"10", "8", "6", "5"}

WagerRules ==
    {[DefaultRules EXCEPT !.min_bet = 1, !.late_surrender = s] : s \in BOOLEAN}

InitWager ==
    /\ OneSimulator
    /\ \E r \in WagerRules : Constructed(r)
    /\ explore = [ranks |-> WagerRanks, rounds |-> 0]
    /\ sim = NoSim
    /\ call = NoCall

CallWagerRound ==
    /\ pc = "idle"
    /\ \E u \in 1..MaxWager : EnterRound(u)
    /\ UNCHANGED <<random, instances, rules, explore, call, shoe, running_count,
                   true_count, cards_used, draw, sim>>

NextWager == CallWagerRound \/ RoundStep

SpecWager == InitWager /\ [][NextWager]_vars

\* C23: a hand that was not split and busts loses exactly its wager at the
\* time (twice the bet if it busted on a double), whatever the wager, and is
\* never settled at half the wager as a surrender is, with surrender enabled
\* or not.
C23_BustLosesTheWager ==
    (pc = "returned" /\ ~SplitRound /\ IsBust(pr.player_hand)) =>
        /\ pr.result = -ph.current_bet
        /\ pr.ret.profit = -ph.current_bet + pr.side_bet_profit

(***************************************************************************)
(* One call of play_round under every setting of the rules on split hands  *)
(***************************************************************************)
SplitRanks == {"A", "10", "8", "3"}

SplitRules ==
    {[DefaultRules EXCEPT !.double_after_split = d, !.hit_after_split_aces = h,
                          !.resplit_allowed = r]
        : d \in BOOLEAN, h \in BOOLEAN, r \in BOOLEAN}

InitSplit ==
    /\ OneSimulator
    /\ \E r \in SplitRules : Constructed(r)
    /\ explore = [ranks |-> SplitRanks, rounds |-> 0]
    /\ sim = NoSim
    /\ call = NoCall

NextSplit == CallPlayRound \/ RoundStep

SpecSplit == InitSplit /\ [][NextSplit]_vars

\* C24: with double_after_split off, no hand made by a split ever doubles.
C24_NoDoubleAfterSplitWhenOff ==
    ~rules.double_after_split => ph.doubled \cap {"hand1", "hand2"} = {}

\* a step that splits a hand: play_hand enters the first of two new hands
SplitStep == pc = "play_hand" /\ pc' = "split_draw" /\ ph'.frame = "hand1"

\* C25: a round splits at most once: only the hand dealt is split, never a
\* hand that a split made, even one that is a pair under rules with
\* resplit_allowed and max_splits above one; once split, the round keeps the
\* same two player hands, each resolved one call below the hand dealt.
C25_AtMostOneSplit ==
    [][/\ SplitStep => (ph.frame = "main" /\ ~SplitRound)
       /\ SplitRound =>
             /\ ph'.hand1 # <<>> /\ ph'.hand1[1] = ph.hand1[1]
             /\ ph'.hand2 # <<>> /\ ph'.hand2[1] = ph.hand2[1]]_vars

\* a hand made by a split is a pair and awaits its move, under rules that
\* allow more than one split
C25_Witness ==
    /\ pc = "play_hand"
    /\ ph.frame \in {"hand1", "hand2"}
    /\ Len(CurHand) = 2
    /\ CurHand[1] = CurHand[2]
    /\ rules.resplit_allowed
    /\ rules.max_splits > 1

\* the positions of play_round at which it calls draw_card
RoundDrawing == {"deal", "play_hand", "split_draw", "split_settle", "settle"}

\* C26: in a round that simulate runs, a card leaves the shoe only as part of
\* that round's play, the deal and the draws that play_round counts in the
\* number of cards it reports: no other card is drawn from the end of one
\* round to the end of the next.
C26_OnlyTheRoundDraws ==
    [][(shoe' # shoe \/ draw' # draw) => pc \in RoundDrawing]_vars

(***************************************************************************)
(* One call of play_round run to its end: no bound on the cards of the     *)
(* round, shoes that are rebuilt in the middle of the round or not, and    *)
(* the process always taking its next step                                 *)
(***************************************************************************)
\* the least number of cards before a reshuffle where a shoe of one deck is
\* rebuilt in the middle of a round
LiveThreshold == 45

\* the rules and the ranks explored under them
LiveConfigs ==
    {[rules |-> DefaultRules, ranks |-> {"A", "5", "10"}],
     [rules |-> [DefaultRules EXCEPT !.min_cards_before_shuffle = LiveThreshold],
      ranks |-> {"A", "5", "10"}],
     [rules |-> [DefaultRules EXCEPT !.min_cards_before_shuffle = LiveThreshold,
                                     !.hit_after_split_aces = TRUE,
                                     !.dealer_hit_soft_17 = FALSE],
      ranks |-> {"A", "10"}]}

InitLive ==
    /\ OneSimulator
    /\ \E cfg \in LiveConfigs :
          /\ Constructed(cfg.rules)
          /\ explore = [ranks |-> cfg.ranks, rounds |-> 0]
    /\ sim = NoSim
    /\ call = NoCall

LiveDealInitial == \E c \in explore.ranks : DealInitial(c)
LiveHit == \E c \in explore.ranks : Hit(c)
LiveDouble == \E c \in explore.ranks : Double(c)
LiveSplitDraw == \E c \in explore.ranks : SplitDraw(c)
LiveSplitDealerDraw == \E c \in explore.ranks : SplitDealerDraw(c)
LiveDealerDraw == \E c \in explore.ranks : DealerDraw(c)

NextLive ==
    \/ CallPlayRound
    \/ LiveDealInitial
    \/ Naturals
    \/ Stand
    \/ LiveHit
    \/ LiveDouble
    \/ Split
    \/ Surrender
    \/ LiveSplitDraw
    \/ LiveSplitDealerDraw
    \/ SplitSettle
    \/ LiveDealerDraw
    \/ Settle

SpecLive == InitLive /\ [][NextLive]_vars /\ WF_vars(NextLive)

\* C27: every call of play_round returns, whatever the order of the cards and
\* the rules: the player's loop (both split hands included) and the dealer's
\* loop end after finitely many draws, with or without reshuffles during the
\* round.
C27_PlayRoundTerminates == <>(pc = "returned")

\* a round has returned after its split hands were played and the shoe was
\* rebuilt during it
C27_Witness ==
    /\ pc = "returned"
    /\ SplitRound
    /\ draw.rebuilt
    /\ pr.cards_used > FullShoe - LiveThreshold

\* the Hi-Lo weights of the cards of the first n ranks that have left a shoe
\* of deck_count decks
RECURSIVE WeightGone(_, _)
WeightGone(cards, n) ==
    IF n = 0 THEN 0
    ELSE (NumSuits * rules.deck_count - cards[RANKS[n]]) * hilo_count(RANKS[n])
         + WeightGone(cards, n - 1)

\* C28: the cards_used and the count_delta that play_round returns are the
\* number of cards its draw_card calls took (the deal, the split hands' draws,
\* the hits and doubles, the dealer's draws) and the sum of their Hi-Lo
\* weights; seen here on a shoe that was full at the call and is not rebuilt.
C28_ReportedDrawsAreTheDraws ==
    pc = "returned" =>
        /\ pr.ret.cards_used = FullShoe - CardsRemaining(shoe)
        /\ pr.ret.count_delta = WeightGone(shoe, Len(RANKS))
        /\ pr.ret.cards_used = cards_used
        /\ pr.ret.count_delta = running_count

\* a split round has returned after the draws of its two hands and of the dealer
C28_Witness ==
    /\ pc = "returned"
    /\ SplitRound
    /\ Len(ph.hand1) = 2
    /\ Len(ph.hand2) = 2
    /\ Len(pr.dealer_hand) > 2
    /\ pr.ret.cards_used > 6
    /\ pr.ret.count_delta # 0

\* the positions at which simulate and play_round call draw_card
DrawPositions == RoundDrawing \cup {"sim_deal", "sim_shadow"}

\* C29: across rounds and reshuffles the running count is the sum of the
\* Hi-Lo weights of the cards dealt from the current shoe, the card returned
\* by the draw that rebuilt it left out: each step either adds to the running
\* count the weight of what left the shoe, or finds the shoe at the reshuffle
\* threshold and leaves a full shoe less one card with a count of zero; and
\* no step outside a draw_card call changes the shoe, the running count or
\* the true count.
C29_RunningCountFollowsTheShoe ==
    [][/\ \/ running_count' - running_count
               = WeightGone(shoe', Len(RANKS)) - WeightGone(shoe, Len(RANKS))
          \/ /\ CardsRemaining(shoe) <= rules.min_cards_before_shuffle
             /\ CardsRemaining(shoe') = FullShoe - 1
             /\ running_count' = 0
       /\ pc \notin DrawPositions
             => UNCHANGED <<shoe, running_count, true_count>>
       /\ shoe' = shoe
             => (running_count' = running_count \/ draw'.rebuilt)]_vars

\* the shoe has been rebuilt by a draw of a round after the first of simulate
C29_Witness ==
    /\ draw.rebuilt
    /\ Len(sim.profits) > 0
    /\ pc \in RoundDrawing
    /\ pr.cards_used > 0

\* what the claim says a split hand that neither busted nor surrendered
\* brings: its own card total against the dealer's, on the wager of the hand;
\* any other split hand brings what the settlement of lines 174-196 gives it
ChildByItsOwnTotal(frame, hand, result) ==
    IF ~IsBust(hand) /\ frame \notin ph.surrendered
    THEN Against(HandValue(hand), HandValue(pr.dealer_hand), ph.current_bet)
    ELSE SplitHandResult(result, pr.dealer_total, ph.current_bet)

\* C30: in a split round every child hand that neither busted nor
\* surrendered is compared with the dealer by its own card total, a two-card
\* 21 under hit_after_split_aces included: the sum play_hand returns for the
\* split is the sum of the two hands so settled.
C30_ChildComparedByItsOwnTotal ==
    [][(pc = "split_settle" /\ pc' = "settle") =>
          pr'.player_result
            = ChildByItsOwnTotal("hand1", ph.hand1, ph.result1)
              + ChildByItsOwnTotal("hand2", ph.hand2, ph.result2)]_vars

=============================================================================
